---- MODULE Spec2Model ----
(***************************************************************************)
(* Invoice ingestion and accounting-suggestion backend.                    *)
(*                                                                         *)
(* The model covers the use cases of app/application/use_cases/invoices.py *)
(* together with the two repository families they are wired to             *)
(* (in-memory and Firestore) and the summary rows of the workbook builder. *)
(*                                                                         *)
(* Conventions                                                             *)
(*   - texts that the code trims or measures (account_code, rationale) are *)
(*     sequences of one-character strings, so strip() and len() are        *)
(*     computed and not assumed;                                           *)
(*   - a confidence is an integer number of hundredths (70 is 0.7);        *)
(*   - line_number 0 stands for Python's None (both are falsy in the code);*)
(*   - an operation's result is a record with an "outcome" field: "ok" or  *)
(*     the name of the exception that leaves the handler.                  *)
(***************************************************************************)
EXTENDS Integers, Sequences, FiniteSets, TLC

VARIABLES
    backend,    \* which repository family is wired: "memory" or "firestore"
    byId,       \* invoice id -> Invoice (InMemory _by_id / Firestore 'invoices')
    byOwner,    \* owner -> (external_id -> invoice id)  (InMemory _by_owner)
    storage,    \* invoice id -> stored suggestions (objects or documents)
    nextId,     \* next identifier handed out by uuid4
    inflight,   \* a Firestore replace_for_invoice between its two commits
    pending,    \* upload calls between their duplicate lookup and their add
    puc,        \* account id -> PUCAccount (Firestore 'puc_accounts')
    nextAccountId,  \* next identifier handed out by uuid4 to a PUCAccount
    tasks,      \* generation calls: scheduled, running or ended
    processed,  \* the invoices a listing or a detail has reported "procesada"
    last        \* what the last call returned or raised

vars == <<backend, byId, byOwner, storage, nextId, inflight, pending, puc,
          nextAccountId, tasks, processed, last>>

(***************************************************************************)
(* Bounds                                                                  *)
(***************************************************************************)
MaxInvoices == 2
MaxPayload == 1

Owners == {"a", "b"}
ExternalIds == {"E1", "E2"}
InvoiceIds == 1..MaxInvoices

(***************************************************************************)
(* Text helpers: str.strip()                                               *)
(***************************************************************************)
RECURSIVE LStrip(_)
LStrip(s) == IF s # <<>> /\ Head(s) = " " THEN LStrip(Tail(s)) ELSE s

RECURSIVE RStrip(_)
RStrip(s) ==
    IF s # <<>> /\ s[Len(s)] = " " THEN RStrip(SubSeq(s, 1, Len(s) - 1)) ELSE s

Strip(s) == RStrip(LStrip(s))

(***************************************************************************)
(* Domain: app/domain/ai.py and app/domain/invoices.py                     *)
(***************************************************************************)
\* The fields of the slotted dataclass AISuggestion that the model carries
\* (generated_at, puc_account_id and account_name play no part in any rule).
\* There is no is_selected field.
AISuggestionFields == {"account_code", "rationale", "confidence", "source", "line_number"}

AISuggestionDefaults == [source |-> "unknown", line_number |-> 0]

\* A constructor that takes any keyword, is_selected included.
NewAISuggestion_AnyKeyword(kw) == [outcome |-> "ok", obj |-> kw @@ AISuggestionDefaults]

\* AISuggestion(**kw): the generated __init__ rejects an unknown keyword with
\* TypeError; otherwise the object has exactly the declared fields.
NewAISuggestion(kw) ==
    IF DOMAIN kw \subseteq AISuggestionFields
    THEN [outcome |-> "ok", obj |-> kw @@ AISuggestionDefaults]
    ELSE [outcome |-> "TypeError", obj |-> AISuggestionDefaults]

\* obj.name on a slotted object: AttributeError when the slot does not exist.
HasAttr(obj, name) == name \in DOMAIN obj

\* An Invoice.create that hands out the same id every time.
InvoiceCreate_FixedId(id, owner, parsed) ==
    [id |-> 1, owner_id |-> owner, external_id |-> parsed.external_id,
     issue_date |-> parsed.issue_date, supplier_name |-> parsed.supplier_name,
     lines |-> parsed.lines]

\* Invoice.create: the id comes from uuid4 (a fresh value), the rest is copied.
InvoiceCreate(id, owner, parsed) ==
    [id |-> id, owner_id |-> owner, external_id |-> parsed.external_id,
     issue_date |-> parsed.issue_date, supplier_name |-> parsed.supplier_name,
     lines |-> parsed.lines]

(***************************************************************************)
(* UBLInvoiceParser.parse, on an abstract document                         *)
(***************************************************************************)
\* An uploaded file, described by what the parser looks for in it:
\*   blank       the bytes are empty or only whitespace;
\*   wellFormed  the bytes are well-formed XML;
\*   root        the root element: Invoice, CreditNote or AttachedDocument;
\*   id, issueDate   the text of the root's cbc:ID and cbc:IssueDate children
\*               ("" when the element is missing or empty);
\*   payable, tax    the text of cac:LegalMonetaryTotal/cbc:PayableAmount and
\*               of cac:TaxTotal/cbc:TaxAmount under the root, or "absent";
\*   lines       the line elements under the root, in document order, each
\*               with its tag (cac:InvoiceLine or cac:CreditNoteLine);
\*   attachment  for an AttachedDocument, the invoice it carries as text
\*               inside cac:Attachment; <<>> otherwise.
MaxLines == 2

SupplierName == <<"S">>
LineDescription == <<"d">>

\* A line element: its cbc:ID, its item description and its three numbers
\* (quantity, price amount, line extension amount) as written.
LineElement(id, description, quantity) ==
    [tag |-> "InvoiceLine", id |-> id, description |-> description,
     quantity |-> quantity, price |-> "10", amount |-> "10"]

SampleInvoice(id, issueDate) ==
    [blank |-> FALSE, wellFormed |-> TRUE, root |-> "Invoice", id |-> id,
     issueDate |-> issueDate, payable |-> "100", tax |-> "19",
     lines |-> <<LineElement("1", LineDescription, "1")>>, attachment |-> <<>>]

\* The same business document as a CreditNote: the lines are cac:CreditNoteLine.
AsCreditNote(doc) ==
    [doc EXCEPT !.root = "CreditNote",
                !.lines = [k \in 1..Len(doc.lines) |->
                              [doc.lines[k] EXCEPT !.tag = "CreditNoteLine"]]]

\* The same business document wrapped in an AttachedDocument: the wrapper has
\* its own cbc:ID and cbc:IssueDate, no totals and no lines; the invoice is
\* text inside the attachment.
AsAttachedDocument(doc) ==
    [blank |-> FALSE, wellFormed |-> TRUE, root |-> "AttachedDocument",
     id |-> doc.id, issueDate |-> doc.issueDate, payable |-> "absent",
     tax |-> "absent", lines |-> <<>>, attachment |-> <<doc>>]

\* The sample uploads: two good invoices, the ways one of them is broken, and
\* the two other document profiles.
Contents ==
    LET good == SampleInvoice("E1", "2024-03-01")
    IN  { good,
          SampleInvoice("E2", "2024-01-15"),
          [good EXCEPT !.blank = TRUE],
          [good EXCEPT !.wellFormed = FALSE],
          [good EXCEPT !.id = ""],
          [good EXCEPT !.issueDate = ""],
          [good EXCEPT !.issueDate = "not-a-date"],
          [good EXCEPT !.payable = "absent"],
          [good EXCEPT !.lines = <<>>],
          AsCreditNote(good),
          AsAttachedDocument(good) }

\* date.fromisoformat on the texts above; dates are numbered in calendar order.
FromIsoFormat(text) ==
    CASE text = "2024-01-15" -> [outcome |-> "ok", date |-> 1]
      [] text = "2024-03-01" -> [outcome |-> "ok", date |-> 2]
      [] OTHER -> [outcome |-> "ValueError", date |-> 0]

\* Decimal(text) for the amounts the sample documents use.
DecimalValues ==
    ("0" :> 0) @@ ("1" :> 1) @@ ("10" :> 10) @@ ("19" :> 19) @@ ("100" :> 100)
        @@ ("-10" :> -10) @@ ("-19" :> -19)

\* _to_decimal: 0 for an empty text, ValueError for a text that is no number.
ToDecimal(text) ==
    IF text = "" THEN [outcome |-> "ok", value |-> 0]
    ELSE IF text \in DOMAIN DecimalValues
    THEN [outcome |-> "ok", value |-> DecimalValues[text]]
    ELSE [outcome |-> "ValueError", value |-> 0]

\* str(len(lines) + 1)
PositionText(n) == <<"0", "1", "2", "3", "4", "5", "6", "7", "8", "9">>[n + 1]

\* A line loop that collects the lines in reverse document order.
RECURSIVE ParseLines_Reversed(_, _)
ParseLines_Reversed(elements, acc) ==
    IF elements = <<>> THEN [outcome |-> "ok", lines |-> acc]
    ELSE LET el == Head(elements)
             quantity == ToDecimal(el.quantity)
             unit_price == ToDecimal(el.price)
             line_total == ToDecimal(el.amount)
             line == [line_id |-> IF el.id # "" THEN el.id
                                  ELSE PositionText(Len(acc) + 1),
                      description |-> el.description,
                      quantity |-> quantity.value,
                      unit_price |-> unit_price.value,
                      line_extension_amount |-> line_total.value]
         IN  IF el.tag # "InvoiceLine" THEN ParseLines_Reversed(Tail(elements), acc)
             ELSE IF \/ quantity.outcome # "ok"
                     \/ unit_price.outcome # "ok"
                     \/ line_total.outcome # "ok"
             THEN [outcome |-> "ValueError", lines |-> <<>>]
             ELSE ParseLines_Reversed(Tail(elements), <<line>> \o acc)

\* The loop over root.findall("cac:InvoiceLine"): elements of another tag are
\* not found; each found element becomes an InvoiceLine appended to lines.
RECURSIVE ParseLines(_, _)
ParseLines(elements, acc) ==
    IF elements = <<>> THEN [outcome |-> "ok", lines |-> acc]
    ELSE LET el == Head(elements)
             quantity == ToDecimal(el.quantity)
             unit_price == ToDecimal(el.price)
             line_total == ToDecimal(el.amount)
             line == [line_id |-> IF el.id # "" THEN el.id
                                  ELSE PositionText(Len(acc) + 1),
                      description |-> el.description,
                      quantity |-> quantity.value,
                      unit_price |-> unit_price.value,
                      line_extension_amount |-> line_total.value]
         IN  IF el.tag # "InvoiceLine" THEN ParseLines(Tail(elements), acc)
             ELSE IF \/ quantity.outcome # "ok"
                     \/ unit_price.outcome # "ok"
                     \/ line_total.outcome # "ok"
             THEN [outcome |-> "ValueError", lines |-> <<>>]
             ELSE ParseLines(Tail(elements), Append(acc, line))

\* UBLInvoiceParser.parse: every path is looked up from the root element, so
\* only the root's own children are read.
Parse(doc) ==
    LET bad == [outcome |-> "ValueError", external_id |-> "", issue_date |-> 0,
                supplier_name |-> <<>>, total_amount |-> 0, tax_amount |-> 0,
                lines |-> <<>>]
        total_amount == ToDecimal(doc.payable)
        tax_amount == IF doc.tax \in {"absent", ""}
                      THEN [outcome |-> "ok", value |-> 0]
                      ELSE ToDecimal(doc.tax)
        lines == ParseLines(doc.lines, <<>>)
    IN  IF ~doc.wellFormed THEN bad
        ELSE IF doc.issueDate = "" THEN bad
        ELSE IF FromIsoFormat(doc.issueDate).outcome # "ok" THEN bad
        ELSE IF doc.payable = "absent" THEN bad
        ELSE IF total_amount.outcome # "ok" THEN bad
        ELSE IF tax_amount.outcome # "ok" THEN bad
        ELSE IF lines.outcome # "ok" THEN bad
        ELSE IF lines.lines = <<>> THEN bad
        ELSE [outcome |-> "ok", external_id |-> doc.id,
              issue_date |-> FromIsoFormat(doc.issueDate).date,
              supplier_name |-> SupplierName,
              total_amount |-> total_amount.value,
              tax_amount |-> tax_amount.value,
              lines |-> lines.lines]

(***************************************************************************)
(* Invoice repositories                                                    *)
(***************************************************************************)
NoInvoice == 0

\* get_by_id: the dict lookup / the document read.
GetById(invoice_id) == IF invoice_id \in DOMAIN byId THEN invoice_id ELSE NoInvoice

\* A find_by_owner_and_external_id that never finds the stored invoice.
FindByOwner_NeverFound(owner, external_id) == NoInvoice

\* find_by_owner_and_external_id. In memory: _by_owner[owner].get(external_id).
\* Firestore: where owner_id == .. where external_id == .. limit(1).
FindByOwnerAndExternalId(owner, external_id) ==
    IF backend = "memory"
    THEN IF external_id \in DOMAIN byOwner[owner]
         THEN byOwner[owner][external_id] ELSE NoInvoice
    ELSE LET hits == {i \in DOMAIN byId :
                        byId[i].owner_id = owner /\ byId[i].external_id = external_id}
         IN  IF hits = {} THEN NoInvoice ELSE CHOOSE i \in hits : \A j \in hits : i <= j

\* An add that files the invoice under its natural key: a stored invoice of
\* the same owner and external id is replaced.
InvoiceAdd_KeyedByExternalId(invoice) ==
    LET kept == {i \in DOMAIN byId :
                    ~(/\ byId[i].owner_id = invoice.owner_id
                      /\ byId[i].external_id = invoice.external_id)}
    IN  [byId |-> (invoice.id :> invoice) @@ [i \in kept |-> byId[i]],
         byOwner |-> IF backend = "memory"
                     THEN [byOwner EXCEPT ![invoice.owner_id] =
                              (invoice.external_id :> invoice.id) @@ @]
                     ELSE byOwner]

\* add, as the pair of maps after the call.
InvoiceAdd(invoice) ==
    [byId |-> (invoice.id :> invoice) @@ byId,
     byOwner |-> IF backend = "memory"
                 THEN [byOwner EXCEPT ![invoice.owner_id] =
                          (invoice.external_id :> invoice.id) @@ @]
                 ELSE byOwner]

RECURSIVE SetToSortedSeq(_)
SetToSortedSeq(S) ==
    IF S = {} THEN <<>>
    ELSE LET m == CHOOSE x \in S : \A y \in S : x <= y
         IN  <<m>> \o SetToSortedSeq(S \ {m})

\* A list_for_user that forgets the owner filter.
ListForUser_AllInvoices(owner) == SetToSortedSeq(DOMAIN byId)

\* list_for_user: the ids of the owner's invoices, in the order of insertion.
ListForUser(owner) ==
    IF backend = "memory"
    THEN SetToSortedSeq({byOwner[owner][e] : e \in DOMAIN byOwner[owner]})
    ELSE SetToSortedSeq({i \in DOMAIN byId : byId[i].owner_id = owner})

(***************************************************************************)
(* Suggestion repositories                                                 *)
(***************************************************************************)
\* A list_for_invoice that leaves is_selected out of the constructor call.
FromDocument_WithoutIsSelected(data) ==
    NewAISuggestion([account_code |-> data.account_code,
                     rationale |-> data.rationale,
                     confidence |-> data.confidence,
                     source |-> IF data.source = "" THEN "unknown" ELSE data.source,
                     line_number |-> data.line_number])

\* A Firestore document of the 'suggestions' collection -> AISuggestion, as
\* list_for_invoice builds it: every key is passed to the constructor,
\* is_selected included; a missing source reads as "unknown".
FromDocument(data) ==
    NewAISuggestion([account_code |-> data.account_code,
                     rationale |-> data.rationale,
                     confidence |-> data.confidence,
                     source |-> IF data.source = "" THEN "unknown" ELSE data.source,
                     is_selected |-> data.is_selected,
                     line_number |-> data.line_number])

\* list_for_invoice on a store st. In memory: a copy of the stored list.
\* Firestore: one AISuggestion per document of the invoice.
ListForInvoice(st, invoice_id) ==
    IF backend = "memory"
    THEN [outcome |-> "ok", items |-> st[invoice_id]]
    ELSE LET docs == st[invoice_id]
         IN  IF \E i \in 1..Len(docs) : FromDocument(docs[i]).outcome # "ok"
             THEN [outcome |-> "TypeError", items |-> <<>>]
             ELSE [outcome |-> "ok",
                   items |-> [i \in 1..Len(docs) |-> FromDocument(docs[i]).obj]]

\* Firestore replace_for_invoice, first batch: delete the invoice's documents
\* and commit.
ReplaceDelete(st, invoice_id) == [st EXCEPT ![invoice_id] = <<>>]

\* Firestore replace_for_invoice, second batch: one document per suggestion,
\* each reading suggestion.is_selected; the batch is committed only after the
\* loop, so an AttributeError in the loop writes nothing.
ReplaceInsert(st, invoice_id, suggestions) ==
    IF suggestions = <<>> THEN [outcome |-> "ok", storage |-> st]
    ELSE IF \E i \in 1..Len(suggestions) : ~HasAttr(suggestions[i], "is_selected")
    THEN [outcome |-> "AttributeError", storage |-> st]
    ELSE [outcome |-> "ok",
          storage |-> [st EXCEPT ![invoice_id] = @ \o suggestions]]

\* replace_for_invoice run to its end. In memory: one assignment of a copy.
ReplaceForInvoice(st, invoice_id, suggestions) ==
    IF backend = "memory"
    THEN [outcome |-> "ok", storage |-> [st EXCEPT ![invoice_id] = suggestions]]
    ELSE ReplaceInsert(ReplaceDelete(st, invoice_id), invoice_id, suggestions)

\* A select_suggestion that marks the chosen documents and unmarks none.
SelectSuggestion_NoUnmark(st, invoice_id, line_number, account_code) ==
    LET cur == st[invoice_id]
    IN  IF backend = "memory"
        THEN IF \E i \in 1..Len(cur) : cur[i].line_number = line_number
             THEN [outcome |-> "AttributeError", storage |-> st]
             ELSE [outcome |-> "ok", storage |-> st]
        ELSE [outcome |-> "ok",
              storage |-> [st EXCEPT ![invoice_id] =
                  [i \in 1..Len(cur) |->
                      IF /\ cur[i].line_number = line_number
                         /\ cur[i].account_code = account_code
                      THEN [cur[i] EXCEPT !.is_selected = TRUE]
                      ELSE cur[i]]]]

\* select_suggestion. In memory: sug.is_selected = False on the first
\* suggestion of the line raises AttributeError (no such slot). Firestore: the
\* documents of the line are updated in place, first all to False, then those
\* of the account code to True.
SelectSuggestion(st, invoice_id, line_number, account_code) ==
    LET cur == st[invoice_id]
    IN  IF backend = "memory"
        THEN IF \E i \in 1..Len(cur) : cur[i].line_number = line_number
             THEN [outcome |-> "AttributeError", storage |-> st]
             ELSE [outcome |-> "ok", storage |-> st]
        ELSE [outcome |-> "ok",
              storage |-> [st EXCEPT ![invoice_id] =
                  [i \in 1..Len(cur) |->
                      IF cur[i].line_number = line_number
                      THEN [cur[i] EXCEPT !.is_selected =
                                (cur[i].account_code = account_code)]
                      ELSE cur[i]]]]

(***************************************************************************)
(* GenerateAccountingSuggestions                                           *)
(***************************************************************************)
\* What the AI collaborator hands back: raw items (dicts).
RawItems ==
    { [account_code |-> <<" ", "5", "3">>, rationale |-> <<"a", "b", " ">>,
       confidence |-> "0.9", line_number |-> 1],
      [account_code |-> <<" ">>, rationale |-> <<"x">>,
       confidence |-> "abc", line_number |-> 0] }

\* An item whose confidence is a number outside [0, 1].
OutOfRangeItem ==
    [account_code |-> <<"4", "1">>, rationale |-> <<"c">>,
     confidence |-> "1.5", line_number |-> 0]

Payloads == UNION {[1..n -> RawItems] : n \in 0..MaxPayload}

\* One call of ai_service.generate_suggestions: it returns a payload or raises.
AIBehaviours ==
    {[raises |-> TRUE, payload |-> <<>>]}
        \cup {[raises |-> FALSE, payload |-> p] : p \in Payloads}

\* float(item.get("confidence", 0.5)) with its except branch: the number the
\* text denotes, whatever its size, and 0.5 for a value that is not a number.
ParseConfidence(text) ==
    CASE text = "0.7" -> 70
      [] text = "0.9" -> 90
      [] text = "1.5" -> 150
      [] OTHER -> 50

Digit(n) == <<"0", "1", "2", "3", "4", "5", "6", "7", "8", "9">>[n + 1]

\* f"Linea {line_number}: " (the accent of the source text is dropped here;
\* the length is the same).
LineaPrefix(n) == <<"L", "i", "n", "e", "a", " ", Digit(n), ":", " ">>

RECURSIVE CoerceFrom(_, _, _)
CoerceFrom(raw, i, acc) ==
    IF i > Len(raw) THEN [outcome |-> "ok", items |-> acc]
    ELSE LET item == raw[i]
             code == Strip(item.account_code)
             line_number == item.line_number
             rationale_base == Strip(item.rationale)
             rationale == IF line_number # 0
                          THEN LineaPrefix(line_number) \o rationale_base
                          ELSE rationale_base
             made == NewAISuggestion(
                         [account_code |-> code, rationale |-> rationale,
                          confidence |-> ParseConfidence(item.confidence),
                          source |-> "ai", line_number |-> line_number,
                          is_selected |-> FALSE])
         IN  IF code = <<>> THEN CoerceFrom(raw, i + 1, acc)
             ELSE IF made.outcome # "ok"
             THEN [outcome |-> made.outcome, items |-> <<>>]
             ELSE CoerceFrom(raw, i + 1, Append(acc, made.obj))

\* _coerce_ai_suggestions
CoerceAISuggestions(raw) == CoerceFrom(raw, 1, <<>>)

RECURSIVE Join(_, _)
Join(parts, sep) ==
    IF parts = <<>> THEN <<>>
    ELSE IF Len(parts) = 1 THEN parts[1]
    ELSE parts[1] \o sep \o Join(Tail(parts), sep)

\* The fixed opening sentence of the fallback rationale, shortened.
FallbackText == <<"n", "o", " ", "I", "A", ".", " ">>

\* _build_generic_fallback: one suggestion, built without is_selected.
BuildGenericFallback(invoice) ==
    LET n == IF Len(invoice.lines) < 3 THEN Len(invoice.lines) ELSE 3
        firstThree == [k \in 1..n |-> invoice.lines[k].description]
        made == NewAISuggestion(
                    [account_code |-> <<>>,
                     rationale |-> FallbackText \o invoice.supplier_name \o <<".", " ">>
                                     \o Join(firstThree, <<",", " ">>) \o <<".">>,
                     confidence |-> 0, source |-> "fallback"])
    IN  [outcome |-> made.outcome, items |-> <<made.obj>>]

\* invoice is None or invoice.owner_id != owner_id, skipping the owner test.
InvoiceMissing_NoOwnerTest(found, owner) == found = NoInvoice

\* invoice is None or invoice.owner_id != owner_id
InvoiceMissing(found, owner) ==
    found = NoInvoice \/ byId[found].owner_id # owner

\* GenerateAccountingSuggestions.execute as a function of the stores and of
\* what the AI collaborator does: the outcome, the returned list, whether the
\* collaborator was called, and the suggestion store afterwards.
GenerateResult(owner, invoice_id, ai) ==
    LET found == GetById(invoice_id)
        coerced == CoerceAISuggestions(ai.payload)
        fallback == BuildGenericFallback(byId[found])
        chosen == IF coerced.items # <<>> THEN coerced.items ELSE fallback.items
        replaced == ReplaceForInvoice(storage, found, chosen)
    IN  IF InvoiceMissing(found, owner)
        THEN [outcome |-> "InvoiceNotFoundError", ret |-> <<>>, ai |-> FALSE,
              storage |-> storage]
        ELSE IF ai.raises
        THEN [outcome |-> "AIError", ret |-> <<>>, ai |-> TRUE, storage |-> storage]
        ELSE IF coerced.outcome # "ok"
        THEN [outcome |-> coerced.outcome, ret |-> <<>>, ai |-> TRUE,
              storage |-> storage]
        ELSE IF replaced.outcome # "ok"
        THEN [outcome |-> replaced.outcome, ret |-> <<>>, ai |-> TRUE,
              storage |-> replaced.storage]
        ELSE [outcome |-> "ok", ret |-> chosen, ai |-> TRUE,
              storage |-> replaced.storage]

(***************************************************************************)
(* ExportInvoicesToExcel and the summary rows of the workbook builder      *)
(***************************************************************************)
RECURSIVE SelectSeqBy(_, _)
\* [s for s in items if keep[i]]
SelectSeqBy(items, keep) ==
    IF items = <<>> THEN <<>>
    ELSE (IF keep[1] THEN <<Head(items)>> ELSE <<>>)
            \o SelectSeqBy(Tail(items), Tail(keep))

\* list.sort(key=lambda s: len(s.rationale)): stable, ascending.
RECURSIVE SortByRationaleLength(_)
SortByRationaleLength(items) ==
    IF items = <<>> THEN <<>>
    ELSE LET x == items[Len(items)]
             before == SortByRationaleLength(SubSeq(items, 1, Len(items) - 1))
             k == Cardinality({i \in 1..Len(before) :
                                 Len(before[i].rationale) <= Len(x.rationale)})
         IN  SubSeq(before, 1, k) \o <<x>> \o SubSeq(before, k + 1, Len(before))

\* An export that keeps the repository's order.
SortByIssueDate_Unsorted(ids) == ids

\* sorted(invoices, key=lambda item: item.issue_date): stable, ascending.
RECURSIVE SortByIssueDate(_)
SortByIssueDate(ids) ==
    IF ids = <<>> THEN <<>>
    ELSE LET x == ids[Len(ids)]
             before == SortByIssueDate(SubSeq(ids, 1, Len(ids) - 1))
             k == Cardinality({i \in 1..Len(before) :
                                 byId[before[i]].issue_date <= byId[x].issue_date})
         IN  SubSeq(before, 1, k) \o <<x>> \o SubSeq(before, k + 1, Len(before))

\* sorted(..., reverse=True): stable, descending.
RECURSIVE SortByIssueDateReverse(_)
SortByIssueDateReverse(ids) ==
    IF ids = <<>> THEN <<>>
    ELSE LET x == ids[Len(ids)]
             before == SortByIssueDateReverse(SubSeq(ids, 1, Len(ids) - 1))
             k == Cardinality({i \in 1..Len(before) :
                                 byId[before[i]].issue_date >= byId[x].issue_date})
         IN  SubSeq(before, 1, k) \o <<x>> \o SubSeq(before, k + 1, Len(before))

\* The selection rule of _get_or_auto_select_suggestion on a list it has read.
\* Reading s.is_selected of an object without that slot raises AttributeError.
SelectWinner(suggestions) ==
    IF suggestions = <<>> THEN [outcome |-> "ok", items |-> <<>>]
    ELSE IF \E i \in 1..Len(suggestions) : ~HasAttr(suggestions[i], "is_selected")
    THEN [outcome |-> "AttributeError", items |-> <<>>]
    ELSE LET selected == SelectSeqBy(suggestions,
                            [i \in 1..Len(suggestions) |-> suggestions[i].is_selected])
             max_confidence ==
                 CHOOSE c \in {suggestions[i].confidence : i \in 1..Len(suggestions)} :
                     \A j \in 1..Len(suggestions) : suggestions[j].confidence <= c
             top_candidates == SelectSeqBy(suggestions,
                            [i \in 1..Len(suggestions) |->
                                suggestions[i].confidence = max_confidence])
             winner == IF Len(top_candidates) = 1 THEN top_candidates[1]
                       ELSE SortByRationaleLength(top_candidates)[1]
         IN  IF selected # <<>> THEN [outcome |-> "ok", items |-> selected]
             ELSE [outcome |-> "ok", items |-> <<winner>>]

\* _get_or_auto_select_suggestion
GetOrAutoSelectSuggestion(st, invoice_id) ==
    LET read == ListForInvoice(st, invoice_id)
    IN  IF read.outcome # "ok" THEN [outcome |-> read.outcome, items |-> <<>>]
        ELSE SelectWinner(read.items)

\* next((s for s in suggestions if s.is_selected), None): 0 when there is none,
\* -1 when an object without the slot is reached first.
RECURSIVE FirstSelected(_, _)
FirstSelected(suggestions, i) ==
    IF i > Len(suggestions) THEN 0
    ELSE IF ~HasAttr(suggestions[i], "is_selected") THEN -1
    ELSE IF suggestions[i].is_selected THEN i
    ELSE FirstSelected(suggestions, i + 1)

\* A cell of the sheet: a str value is written as an inline string (empty when
\* the string is empty), a float as a number (_sheet_xml / _is_number; a
\* DataFrame column keeps the same values).
TextCell(text) == [t |-> "inlineStr", text |-> text, v |-> 0]
NumberCell(n) == [t |-> "n", text |-> <<>>, v |-> n]

\* The three classification cells of a summary row.
ClassificationCells(code, rationale, confidence) ==
    [code |-> TextCell(code), rationale |-> TextCell(rationale),
     confidence |-> NumberCell(confidence)]

\* A summary row that writes the default confidence of the coercion (0.5)
\* when no suggestion is selected.
ResumenRow_DefaultHalf(invoice_id, suggestions) ==
    LET k == FirstSelected(suggestions, 1)
    IN  IF k = -1
        THEN [outcome |-> "AttributeError", invoice |-> invoice_id,
              code |-> <<>>, rationale |-> <<>>, confidence |-> 0,
              cells |-> ClassificationCells(<<>>, <<>>, 0)]
        ELSE IF k = 0
        THEN [outcome |-> "ok", invoice |-> invoice_id,
              code |-> <<>>, rationale |-> <<>>, confidence |-> 50,
              cells |-> ClassificationCells(<<>>, <<>>, 50)]
        ELSE [outcome |-> "ok", invoice |-> invoice_id,
              code |-> suggestions[k].account_code,
              rationale |-> suggestions[k].rationale,
              confidence |-> suggestions[k].confidence,
              cells |-> ClassificationCells(suggestions[k].account_code,
                                            suggestions[k].rationale,
                                            suggestions[k].confidence)]

\* One row of _build_resumen_rows: the classification values of an invoice
\* ("" / "" / 0.0 when no suggestion is flagged) and the cells they become.
ResumenRow(invoice_id, suggestions) ==
    LET k == FirstSelected(suggestions, 1)
    IN  IF k = -1
        THEN [outcome |-> "AttributeError", invoice |-> invoice_id,
              code |-> <<>>, rationale |-> <<>>, confidence |-> 0,
              cells |-> ClassificationCells(<<>>, <<>>, 0)]
        ELSE IF k = 0
        THEN [outcome |-> "ok", invoice |-> invoice_id,
              code |-> <<>>, rationale |-> <<>>, confidence |-> 0,
              cells |-> ClassificationCells(<<>>, <<>>, 0)]
        ELSE [outcome |-> "ok", invoice |-> invoice_id,
              code |-> suggestions[k].account_code,
              rationale |-> suggestions[k].rationale,
              confidence |-> suggestions[k].confidence,
              cells |-> ClassificationCells(suggestions[k].account_code,
                                            suggestions[k].rationale,
                                            suggestions[k].confidence)]

FirstFailure(results) ==
    LET bad == {i \in 1..Len(results) : results[i].outcome # "ok"}
    IN  IF bad = {} THEN "ok"
        ELSE results[CHOOSE i \in bad : \A j \in bad : i <= j].outcome

\* An execute without the test of the empty list: the builder is handed no
\* invoice.
ExportResult_NoEmptyCheck(owner) ==
    LET invoices == ListForUser(owner)
        ordered == SortByIssueDate(invoices)
        picks == [i \in 1..Len(ordered) |->
                     GetOrAutoSelectSuggestion(storage, ordered[i])]
        rows == [i \in 1..Len(ordered) |-> ResumenRow(ordered[i], picks[i].items)]
    IN  IF FirstFailure(picks) # "ok"
        THEN [outcome |-> FirstFailure(picks), ret |-> <<>>, built |-> FALSE]
        ELSE IF FirstFailure(rows) # "ok"
        THEN [outcome |-> FirstFailure(rows), ret |-> <<>>, built |-> TRUE]
        ELSE [outcome |-> "ok", built |-> TRUE,
              ret |-> [i \in 1..Len(ordered) |->
                          [invoice |-> ordered[i], winners |-> picks[i].items,
                           code |-> rows[i].code, rationale |-> rows[i].rationale,
                           confidence |-> rows[i].confidence,
                           cells |-> rows[i].cells]]]

\* ExportInvoicesToExcel.execute followed by the builder's summary rows.
\* built: workbook_builder.build was called.
ExportResult(owner) ==
    LET invoices == ListForUser(owner)
        ordered == SortByIssueDate(invoices)
        picks == [i \in 1..Len(ordered) |->
                     GetOrAutoSelectSuggestion(storage, ordered[i])]
        rows == [i \in 1..Len(ordered) |-> ResumenRow(ordered[i], picks[i].items)]
    IN  IF invoices = <<>>
        THEN [outcome |-> "NoInvoicesToExportError", ret |-> <<>>, built |-> FALSE]
        ELSE IF FirstFailure(picks) # "ok"
        THEN [outcome |-> FirstFailure(picks), ret |-> <<>>, built |-> FALSE]
        ELSE IF FirstFailure(rows) # "ok"
        THEN [outcome |-> FirstFailure(rows), ret |-> <<>>, built |-> TRUE]
        ELSE [outcome |-> "ok", built |-> TRUE,
              ret |-> [i \in 1..Len(ordered) |->
                          [invoice |-> ordered[i], winners |-> picks[i].items,
                           code |-> rows[i].code, rationale |-> rows[i].rationale,
                           confidence |-> rows[i].confidence,
                           cells |-> rows[i].cells]]]

(***************************************************************************)
(* ListInvoices and GetInvoiceDetail                                       *)
(***************************************************************************)
Status(suggestions) == IF suggestions # <<>> THEN "procesada" ELSE "pendiente"

ListResult(owner) ==
    LET ordered == SortByIssueDateReverse(ListForUser(owner))
        reads == [i \in 1..Len(ordered) |-> ListForInvoice(storage, ordered[i])]
    IN  IF FirstFailure(reads) # "ok"
        THEN [outcome |-> FirstFailure(reads), ret |-> <<>>]
        ELSE [outcome |-> "ok",
              ret |-> [i \in 1..Len(ordered) |->
                          [invoice |-> ordered[i], status |-> Status(reads[i].items)]]]

DetailResult(owner, invoice_id) ==
    LET found == GetById(invoice_id)
        read == ListForInvoice(storage, found)
    IN  IF InvoiceMissing(found, owner)
        THEN [outcome |-> "InvoiceNotFoundError", ret |-> <<>>]
        ELSE IF read.outcome # "ok"
        THEN [outcome |-> read.outcome, ret |-> <<>>]
        ELSE [outcome |-> "ok",
              ret |-> <<[invoice |-> found, status |-> Status(read.items)]>>]

\* The invoices that the entries of a listing or of a detail report as
\* "procesada".
Reported(entries) ==
    {entries[k].invoice : k \in {j \in 1..Len(entries) : entries[j].status = "procesada"}}

(***************************************************************************)
(* UploadInvoice                                                           *)
(***************************************************************************)
\* An execute whose except clause lets the parser's ValueError through.
UploadResult_LeaksParserError(owner, doc) ==
    LET parsed == Parse(doc)
        external_id == parsed.external_id
    IN  IF doc.blank
        THEN [outcome |-> "InvalidInvoicePayloadError", ext |-> "", added |-> FALSE]
        ELSE IF parsed.outcome # "ok"
        THEN [outcome |-> parsed.outcome, ext |-> "", added |-> FALSE]
        ELSE IF external_id = ""
        THEN [outcome |-> "InvalidInvoicePayloadError", ext |-> "", added |-> FALSE]
        ELSE IF FindByOwnerAndExternalId(owner, external_id) # NoInvoice
        THEN [outcome |-> "InvoiceAlreadyExistsError", ext |-> external_id,
              added |-> FALSE]
        ELSE [outcome |-> "ok", ext |-> external_id, added |-> TRUE]

\* UploadInvoice.execute up to the duplicate check: the outcome, the external
\* id read, and whether the invoice is to be added.
UploadResult(owner, doc) ==
    LET parsed == Parse(doc)
        external_id == parsed.external_id
        invoice == InvoiceCreate(nextId, owner, parsed)
    IN  IF doc.blank
        THEN [outcome |-> "InvalidInvoicePayloadError", ext |-> "", added |-> FALSE]
        ELSE IF parsed.outcome # "ok"
        THEN [outcome |-> "InvalidInvoicePayloadError", ext |-> "", added |-> FALSE]
        ELSE IF external_id = ""
        THEN [outcome |-> "InvalidInvoicePayloadError", ext |-> "", added |-> FALSE]
        ELSE IF FindByOwnerAndExternalId(owner, external_id) # NoInvoice
        THEN [outcome |-> "InvoiceAlreadyExistsError", ext |-> external_id,
              added |-> FALSE]
        ELSE [outcome |-> "ok", ext |-> external_id, added |-> TRUE]

(***************************************************************************)
(* State                                                                   *)
(***************************************************************************)
NoReplace == [active |-> FALSE, invoice_id |-> NoInvoice, suggestions |-> <<>>,
              previous |-> <<>>]

\* The observation left by a call: its arguments, its outcome and its result.
\*   called/raised: whether the AI collaborator was called, and raised;
\*   repeat: the call repeats the previous call (same arguments);
\*   before: the size of the invoice's stored set (of the owner's PUC set, for
\*           a PUC upload) when the call began;
\*   seen: the stored entries a list_for_invoice query found;
\*   content: the file an upload was given;
\*   raced: the upload and another upload of the same key had both run their
\*          lookup before either ran its add.
Observation(op, owner, inv, ext, outcome, ret) ==
    [op |-> op, owner |-> owner, inv |-> inv, ext |-> ext, outcome |-> outcome,
     ret |-> ret, seen |-> <<>>, payload |-> <<>>, called |-> FALSE,
     raised |-> FALSE, repeat |-> FALSE, before |-> 0, content |-> <<>>,
     raced |-> FALSE, background |-> FALSE, overlapped |-> FALSE,
     chosen |-> <<>>, rival |-> <<>>, shown |-> {}, built |-> FALSE]

\* The requests that can be inside UploadInvoice.execute at the same time.
Callers == {1, 2}

NoUpload == [active |-> FALSE, owner |-> "", ext |-> "", content |-> <<>>,
             raced |-> FALSE]

\* A generation call (GenerateAccountingSuggestions.execute run by a request
\* or by the background task of an upload) and how far it has got:
\*   idle       no call;
\*   scheduled  a background task added by the upload endpoint, not started;
\*   chosen     the invoice was found and the list to store is built;
\*   deleted    Firestore only: the first batch (the deletes) is committed.
\* overlapped: another call for the same invoice was between its start and
\* its end while this one was; rival is the list that other call built.
NoTask == [phase |-> "idle", owner |-> "", invoice_id |-> NoInvoice,
           background |-> FALSE, suggestions |-> <<>>, overlapped |-> FALSE,
           rival |-> <<>>]

\* Firestore outlives the process: when the repositories are constructed the
\* collections may already hold documents (list_for_invoice reads them with
\* defaults for missing keys). A stored document carries is_selected.
LegacyInvoice ==
    [id |-> 1, owner_id |-> "a", external_id |-> "E1", issue_date |-> 2,
     supplier_name |-> SupplierName,
     lines |-> Parse(SampleInvoice("E1", "2024-03-01")).lines]

LegacyDocument(code, rationale, confidence, is_selected) ==
    [account_code |-> code, rationale |-> rationale, confidence |-> confidence,
     source |-> "ai", is_selected |-> is_selected, line_number |-> 0]

LegacyCollections ==
    { <<>>,
      <<LegacyDocument(<<"5", "3">>, <<"a", "b", "c">>, 90, FALSE)>>,
      <<LegacyDocument(<<"5", "3">>, <<"a", "b", "c">>, 90, FALSE),
        LegacyDocument(<<"4", "1">>, <<"a", "b">>, 50, TRUE)>> }

Init ==
    /\ backend \in {"memory", "firestore"}
    /\ byOwner = [o \in Owners |-> <<>>]
    /\ inflight = NoReplace
    /\ pending = [c \in Callers |-> NoUpload]
    /\ puc = <<>>
    /\ nextAccountId = 1
    /\ tasks = [c \in Callers |-> NoTask]
    /\ processed = {}
    /\ last = Observation("init", "", NoInvoice, "", "ok", <<>>)
    /\ \/ /\ byId = <<>>
          /\ storage = [i \in InvoiceIds |-> <<>>]
          /\ nextId = 1
       \/ /\ backend = "firestore"
          /\ byId = (1 :> LegacyInvoice)
          /\ \E docs \in LegacyCollections :
                storage = [i \in InvoiceIds |-> IF i = 1 THEN docs ELSE <<>>]
          /\ nextId = 2

(***************************************************************************)
(* Handlers                                                                *)
(***************************************************************************)
UploadInvoice ==
    \E owner \in Owners, doc \in Contents :
        LET r == UploadResult(owner, doc)
            added == InvoiceAdd(InvoiceCreate(nextId, owner, Parse(doc)))
        IN  /\ r.added => nextId <= MaxInvoices
            /\ byId' = IF r.added THEN added.byId ELSE byId
            /\ byOwner' = IF r.added THEN added.byOwner ELSE byOwner
            /\ nextId' = IF r.added THEN nextId + 1 ELSE nextId
            /\ last' = [Observation("upload", owner,
                                    IF r.added THEN nextId ELSE NoInvoice,
                                    r.ext, r.outcome, <<>>)
                          EXCEPT !.content = <<doc>>]
            /\ UNCHANGED <<puc, nextAccountId, tasks, processed, pending, backend, storage, inflight>>

GenerateAccountingSuggestions ==
    \E owner \in Owners, invoice_id \in InvoiceIds, ai \in AIBehaviours :
        LET r == GenerateResult(owner, invoice_id, ai)
        IN  /\ storage' = r.storage
            /\ last' = [Observation("generate", owner, invoice_id, "", r.outcome, r.ret)
                          EXCEPT !.payload = ai.payload,
                                 !.called = r.ai,
                                 !.raised = r.ai /\ ai.raises,
                                 !.repeat = /\ last.op = "generate"
                                            /\ last.owner = owner
                                            /\ last.inv = invoice_id
                                            /\ last.payload = ai.payload
                                            /\ last.raised = ai.raises
                                            /\ last.called,
                                 !.before = Len(storage[invoice_id])]
            /\ UNCHANGED <<puc, nextAccountId, tasks, processed, pending, backend, byId, byOwner, nextId, inflight>>

\* An export that writes back what it used: the first stored document of each
\* of the owner's invoices is flagged is_selected.
ExportInvoicesToExcel_PersistsWinner ==
    \E owner \in Owners :
        LET r == ExportResult(owner)
            mine == {i \in DOMAIN byId : byId[i].owner_id = owner}
        IN  /\ last' = [Observation("export", owner, NoInvoice, "", r.outcome, r.ret)
                          EXCEPT !.built = r.built,
                                 !.repeat = last.op = "export" /\ last.owner = owner]
            /\ storage' = [i \in InvoiceIds |->
                              IF /\ i \in mine
                                 /\ storage[i] # <<>>
                                 /\ HasAttr(storage[i][1], "is_selected")
                              THEN [storage[i] EXCEPT ![1].is_selected = TRUE]
                              ELSE storage[i]]
            /\ UNCHANGED <<puc, nextAccountId, tasks, processed, pending, backend, byId, byOwner, nextId, inflight>>

\* repeat: the call before this one was an export for the same owner.
ExportInvoicesToExcel ==
    \E owner \in Owners :
        LET r == ExportResult(owner)
        IN  /\ last' = [Observation("export", owner, NoInvoice, "", r.outcome, r.ret)
                          EXCEPT !.built = r.built,
                                 !.repeat = last.op = "export" /\ last.owner = owner]
            /\ UNCHANGED <<puc, nextAccountId, tasks, processed, pending, backend, byId, byOwner, storage, nextId, inflight>>

\* processed is the record of the invoices a client has been shown as
\* "procesada". The two read handlers note it in their observation (shown) and
\* leave its update to the specification that uses them.
ListInvoicesCall ==
    \E owner \in Owners :
        LET r == ListResult(owner)
        IN  /\ last' = [Observation("list", owner, NoInvoice, "", r.outcome, r.ret)
                          EXCEPT !.shown = processed]
            /\ UNCHANGED <<puc, nextAccountId, tasks, pending, backend, byId, byOwner, storage, nextId, inflight>>

ListInvoices == ListInvoicesCall /\ UNCHANGED processed

GetInvoiceDetailCall ==
    \E owner \in Owners, invoice_id \in InvoiceIds :
        LET r == DetailResult(owner, invoice_id)
        IN  /\ last' = [Observation("detail", owner, invoice_id, "", r.outcome, r.ret)
                          EXCEPT !.shown = processed]
            /\ UNCHANGED <<puc, nextAccountId, tasks, pending, backend, byId, byOwner, storage, nextId, inflight>>

GetInvoiceDetail == GetInvoiceDetailCall /\ UNCHANGED processed

SelectableCodes == {<<"5", "3">>, <<"4", "1">>}

SelectSuggestionCall ==
    \E invoice_id \in DOMAIN byId, line_number \in 0..1, code \in SelectableCodes :
        LET r == SelectSuggestion(storage, invoice_id, line_number, code)
        IN  /\ storage' = r.storage
            /\ last' = Observation("select", byId[invoice_id].owner_id, invoice_id,
                                   "", r.outcome, <<>>)
            /\ UNCHANGED <<puc, nextAccountId, tasks, processed, pending, backend, byId, byOwner, nextId, inflight>>

Next ==
    \/ UploadInvoice
    \/ GenerateAccountingSuggestions
    \/ ExportInvoicesToExcel
    \/ ListInvoices
    \/ GetInvoiceDetail
    \/ SelectSuggestionCall

Spec == Init /\ [][Next]_vars

(***************************************************************************)
(* The suggestion repository under concurrent callers                      *)
(*                                                                         *)
(* The background task fired by upload runs generation in a worker thread, *)
(* so a replace_for_invoice can overlap other requests. In memory the      *)
(* replace is one assignment. In Firestore it is two commits: other calls  *)
(* can run between them.                                                   *)
(***************************************************************************)
\* A list built the way the AI branch would build it if the constructor took
\* only the fields AISuggestion declares.
SampleSuggestions ==
    <<NewAISuggestion([account_code |-> <<"5", "3">>, rationale |-> <<"a", "b">>,
                       confidence |-> 90, source |-> "ai"]).obj>>

\* The lists replace_for_invoice is called with.
NewSets(invoice_id) == {BuildGenericFallback(byId[invoice_id]).items, SampleSuggestions}

ReplaceForInvoiceCall ==
    \E invoice_id \in DOMAIN byId :
        \E suggestions \in NewSets(invoice_id) :
            LET r == ReplaceForInvoice(storage, invoice_id, suggestions)
            IN  /\ backend = "memory"
                /\ storage' = r.storage
                /\ last' = Observation("replace", byId[invoice_id].owner_id, invoice_id,
                                       "", r.outcome, suggestions)
                /\ UNCHANGED <<puc, nextAccountId, tasks, processed, pending, backend, byId, byOwner, nextId, inflight>>

ReplaceStart ==
    \E invoice_id \in DOMAIN byId :
        \E suggestions \in NewSets(invoice_id) :
            /\ backend = "firestore"
            /\ ~inflight.active
            /\ storage' = ReplaceDelete(storage, invoice_id)
            /\ inflight' = [active |-> TRUE, invoice_id |-> invoice_id,
                            suggestions |-> suggestions,
                            previous |-> storage[invoice_id]]
            /\ last' = Observation("replace_start", byId[invoice_id].owner_id,
                                   invoice_id, "", "ok", <<>>)
            /\ UNCHANGED <<puc, nextAccountId, tasks, processed, pending, backend, byId, byOwner, nextId>>

ReplaceFinish ==
    LET r == ReplaceInsert(storage, inflight.invoice_id, inflight.suggestions)
    IN  /\ inflight.active
        /\ storage' = r.storage
        /\ inflight' = NoReplace
        /\ last' = Observation("replace", byId[inflight.invoice_id].owner_id,
                               inflight.invoice_id, "", r.outcome,
                               inflight.suggestions)
        /\ UNCHANGED <<puc, nextAccountId, tasks, processed, pending, backend, byId, byOwner, nextId>>

ReadSuggestions ==
    \E invoice_id \in DOMAIN byId :
        LET r == ListForInvoice(storage, invoice_id)
        IN  /\ last' = [Observation("list_for_invoice", byId[invoice_id].owner_id,
                                    invoice_id, "", r.outcome, r.items)
                          EXCEPT !.seen = storage[invoice_id]]
            /\ UNCHANGED <<puc, nextAccountId, tasks, processed, pending, backend, byId, byOwner, storage, nextId, inflight>>

NextConc ==
    \/ UploadInvoice
    \/ ReplaceForInvoiceCall
    \/ ReplaceStart
    \/ ReplaceFinish
    \/ ReadSuggestions
    \/ SelectSuggestionCall

SpecConc == Init /\ [][NextConc]_vars

(***************************************************************************)
(* UploadInvoice under concurrent callers                                  *)
(*                                                                         *)
(* execute takes no lock and the repositories offer no conditional insert: *)
(* the duplicate lookup and the add are two separate repository calls, and *)
(* another request (another worker process on the same Firestore project,  *)
(* or another thread) can run between them.                                *)
(***************************************************************************)
\* execute up to and including the duplicate lookup. A call that fails ends
\* here; a call that passes the check is left pending before Invoice.create.
UploadLookup ==
    \E c \in Callers, owner \in Owners, doc \in Contents :
        LET r == UploadResult(owner, doc)
            others == {d \in Callers \ {c} :
                         /\ pending[d].active
                         /\ pending[d].owner = owner
                         /\ pending[d].ext = r.ext}
        IN  /\ ~pending[c].active
            /\ pending' = IF r.added
                           THEN [d \in Callers |->
                                    IF d = c
                                    THEN [active |-> TRUE, owner |-> owner,
                                          ext |-> r.ext, content |-> <<doc>>,
                                          raced |-> others # {}]
                                    ELSE IF d \in others
                                    THEN [pending[d] EXCEPT !.raced = TRUE]
                                    ELSE pending[d]]
                           ELSE pending
            /\ last' = [Observation(IF r.added THEN "upload_lookup" ELSE "upload",
                                    owner, NoInvoice, r.ext, r.outcome, <<>>)
                          EXCEPT !.content = <<doc>>]
            /\ UNCHANGED <<puc, nextAccountId, tasks, processed, backend, byId, byOwner, storage, nextId, inflight>>

\* The rest of execute: Invoice.create, repository add, return.
UploadAdd ==
    \E c \in Callers :
        LET call == pending[c]
            added == InvoiceAdd(InvoiceCreate(nextId, call.owner,
                                              Parse(call.content[1])))
        IN  /\ call.active
            /\ nextId <= MaxInvoices
            /\ byId' = added.byId
            /\ byOwner' = added.byOwner
            /\ nextId' = nextId + 1
            /\ pending' = [pending EXCEPT ![c] = NoUpload]
            /\ last' = [Observation("upload", call.owner, nextId, call.ext, "ok", <<>>)
                          EXCEPT !.content = call.content, !.raced = call.raced]
            /\ UNCHANGED <<puc, nextAccountId, tasks, processed, backend, storage, inflight>>

NextUpload ==
    \/ UploadLookup
    \/ UploadAdd

SpecUpload == Init /\ [][NextUpload]_vars

(***************************************************************************)
(* The parser on its own, over a family of documents                       *)
(***************************************************************************)
\* Line elements: a complete one, one without cbc:ID, one whose quantity is
\* no number.
SampleLines ==
    { LineElement("1", <<"d">>, "1"),
      LineElement("", <<"e">>, "1"),
      LineElement("2", <<"f">>, "abc") }

LineSeqs == UNION {[1..n -> SampleLines] : n \in 0..MaxLines}

\* Well-formed documents with an Invoice root.
PlainInvoices ==
    { [blank |-> FALSE, wellFormed |-> TRUE, root |-> "Invoice", id |-> id,
       issueDate |-> issueDate, payable |-> payable, tax |-> tax,
       lines |-> lines, attachment |-> <<>>] :
         id \in {"", "E1"},
         issueDate \in {"", "2024-03-01", "not-a-date"},
         payable \in {"absent", "100", "10", "-10", "abc"},
         tax \in {"absent", "19", "-19"},
         lines \in LineSeqs }

\* The documents handed to the parser: each business document in the three
\* profiles, and one file that is not XML.
Documents ==
    PlainInvoices
        \cup {AsCreditNote(doc) : doc \in PlainInvoices}
        \cup {AsAttachedDocument(doc) : doc \in PlainInvoices}
        \cup {[SampleInvoice("E1", "2024-03-01") EXCEPT !.wellFormed = FALSE]}

\* A parser instance and the bytes it is about to be given; the parser reads
\* no store.
InitParse ==
    /\ backend = "memory"
    /\ byId = <<>>
    /\ byOwner = [o \in Owners |-> <<>>]
    /\ storage = [i \in InvoiceIds |-> <<>>]
    /\ nextId = 1
    /\ inflight = NoReplace
    /\ pending = [c \in Callers |-> NoUpload]
    /\ puc = <<>>
    /\ nextAccountId = 1
    /\ tasks = [c \in Callers |-> NoTask]
    /\ processed = {}
    /\ \E doc \in Documents :
          last = [Observation("document", "", NoInvoice, "", "ok", <<>>)
                    EXCEPT !.content = <<doc>>]

\* One call of UBLInvoiceParser.parse on those bytes.
ParseDocument ==
    LET doc == last.content[1]
        r == Parse(doc)
    IN  /\ last.op = "document"
        /\ last' = [Observation("parse", "", NoInvoice, r.external_id,
                                r.outcome, <<r>>)
                      EXCEPT !.content = <<doc>>]
        /\ UNCHANGED <<puc, nextAccountId, tasks, processed, pending, backend, byId, byOwner, storage, nextId, inflight>>

NextParse == ParseDocument

SpecParse == InitParse /\ [][NextParse]_vars

(***************************************************************************)
(* SpreadsheetInvoiceWorkbookBuilder: the two writers                      *)
(*                                                                         *)
(* Both writers take their rows from _build_resumen_rows and               *)
(* _build_lines_rows, which yield one dict per row. The pandas writer      *)
(* hands the list of dicts to DataFrame(...).to_excel(index=False): the    *)
(* columns of the frame are the keys of the dicts, and a frame built from  *)
(* an empty list has no columns, so nothing is written, the header row     *)
(* included. The minimal writer starts each sheet with a literal header    *)
(* row and appends one list per dict.                                      *)
(* Accents of the column names are dropped ("Codigo PUC").                 *)
(***************************************************************************)
\* The keys of the dict _build_resumen_rows yields, in insertion order.
ResumenKeys ==
    <<"Factura interna", "Consecutivo externo", "Fecha", "Proveedor",
      "NIT proveedor", "Cliente", "NIT cliente", "Moneda", "Subtotal",
      "Impuestos", "Total", "Codigo PUC", "Justificacion", "Confianza">>

\* The keys of the dict _build_lines_rows yields, in insertion order.
ProductosKeys ==
    <<"Factura interna", "Consecutivo externo", "ID producto", "Descripcion",
      "Cantidad", "Precio unitario", "Subtotal">>

\* The literal header rows of the minimal writer.
ResumenHeader ==
    <<"Factura interna", "Consecutivo externo", "Fecha", "Proveedor",
      "NIT proveedor", "Cliente", "NIT cliente", "Moneda", "Subtotal",
      "Impuestos", "Total", "Codigo PUC", "Justificacion", "Confianza">>

ProductosHeader ==
    <<"Factura interna", "Consecutivo externo", "ID producto", "Descripcion",
      "Cantidad", "Precio unitario", "Subtotal">>

\* The dict of one summary row. The tax ids, the customer, the currency and
\* the three amounts of an invoice are not carried by the model's Invoice:
\* their cells are the same fixed value for both writers.
ResumenDict(invoice, row) ==
    [key \in {ResumenKeys[c] : c \in 1..Len(ResumenKeys)} |->
        CASE key = "Factura interna" -> TextCell(invoice.id)
          [] key = "Consecutivo externo" -> TextCell(invoice.external_id)
          [] key = "Fecha" -> TextCell(invoice.issue_date)
          [] key = "Proveedor" -> TextCell(invoice.supplier_name)
          [] key = "Codigo PUC" -> row.cells.code
          [] key = "Justificacion" -> row.cells.rationale
          [] key = "Confianza" -> row.cells.confidence
          [] key \in {"Subtotal", "Impuestos", "Total"} -> NumberCell(0)
          [] OTHER -> TextCell(<<>>)]

\* _build_resumen_rows: one dict per invoice, in the order of the list;
\* suggestions_map.get(invoice.id, []) is the invoice's entry of the map.
BuildResumenRows(invoices, suggestions_map) ==
    LET rows == [i \in 1..Len(invoices) |->
                    ResumenRow(invoices[i].id, suggestions_map[invoices[i].id])]
    IN  [outcome |-> FirstFailure(rows),
         dicts |-> [i \in 1..Len(invoices) |-> ResumenDict(invoices[i], rows[i])]]

\* The dict of one product row.
LineDict(invoice, line) ==
    [key \in {ProductosKeys[c] : c \in 1..Len(ProductosKeys)} |->
        CASE key = "Factura interna" -> TextCell(invoice.id)
          [] key = "Consecutivo externo" -> TextCell(invoice.external_id)
          [] key = "ID producto" -> TextCell(line.line_id)
          [] key = "Descripcion" -> TextCell(line.description)
          [] key = "Cantidad" -> NumberCell(line.quantity)
          [] key = "Precio unitario" -> NumberCell(line.unit_price)
          [] OTHER -> NumberCell(line.line_extension_amount)]

\* _build_lines_rows: one dict per line of each invoice, invoice by invoice.
RECURSIVE BuildLinesRows(_)
BuildLinesRows(invoices) ==
    IF invoices = <<>> THEN <<>>
    ELSE LET invoice == Head(invoices)
         IN  [k \in 1..Len(invoice.lines) |-> LineDict(invoice, invoice.lines[k])]
                \o BuildLinesRows(Tail(invoices))

\* The cells of a sheet under a header row: one list per dict, the values
\* taken in the order of the header.
SheetRows(header, dicts) ==
    [i \in 1..Len(dicts) |-> [c \in 1..Len(header) |-> dicts[i][header[c]]]]

\* pd.DataFrame(dicts).to_excel(writer, sheet_name=..., index=False): the
\* columns are the keys of the dicts (keys is their insertion order); a frame
\* made from no dict has no column.
DataFrameSheet(keys, dicts) ==
    LET columns == IF dicts = <<>> THEN <<>> ELSE keys
    IN  [header |-> columns, rows |-> SheetRows(columns, dicts)]

\* The sheet the minimal writer hands to _sheet_xml: the header, then the rows.
MinimalSheet(header, dicts) ==
    [header |-> header, rows |-> SheetRows(header, dicts)]

NoSheet == [header |-> <<>>, rows |-> <<>>]

\* _build_with_pandas
BuildWithPandas(invoices, suggestions_map) ==
    LET resumen_rows == BuildResumenRows(invoices, suggestions_map)
        productos_rows == BuildLinesRows(invoices)
    IN  IF resumen_rows.outcome # "ok"
        THEN [outcome |-> resumen_rows.outcome, Resumen |-> NoSheet,
              Productos |-> NoSheet]
        ELSE [outcome |-> "ok",
              Resumen |-> DataFrameSheet(ResumenKeys, resumen_rows.dicts),
              Productos |-> DataFrameSheet(ProductosKeys, productos_rows)]

\* _build_with_minimal_writer
BuildWithMinimalWriter(invoices, suggestions_map) ==
    LET resumen_rows == BuildResumenRows(invoices, suggestions_map)
        productos_rows == BuildLinesRows(invoices)
    IN  IF resumen_rows.outcome # "ok"
        THEN [outcome |-> resumen_rows.outcome, Resumen |-> NoSheet,
              Productos |-> NoSheet]
        ELSE [outcome |-> "ok",
              Resumen |-> MinimalSheet(ResumenHeader, resumen_rows.dicts),
              Productos |-> MinimalSheet(ProductosHeader, productos_rows)]

\* The line tuples of the sample invoices: from no line (the dataclass
\* default is the empty tuple) to MaxLines lines.
LineTuples ==
    {ParseLines([k \in 1..n |-> LineElement(PositionText(k), LineDescription, "1")],
                <<>>).lines : n \in 0..MaxLines}

\* The arguments of build: a list of invoices and, per invoice id, a list of
\* suggestions (AISuggestion objects, which have no is_selected attribute).
BuildInputs ==
    UNION { { [invoices |-> [i \in 1..n |->
                                InvoiceCreate(i, "a",
                                    [external_id |-> IF i = 1 THEN "E1" ELSE "E2",
                                     issue_date |-> 2,
                                     supplier_name |-> SupplierName,
                                     lines |-> lines[i]])],
               suggestions_map |-> map] :
                lines \in [1..n -> LineTuples],
                map \in [1..n -> {<<>>, SampleSuggestions,
                                  BuildGenericFallback(LegacyInvoice).items}] } :
            n \in 0..MaxInvoices }

\* A builder and the arguments it is about to be given; it reads no store.
InitBuild ==
    /\ backend = "memory"
    /\ byId = <<>>
    /\ byOwner = [o \in Owners |-> <<>>]
    /\ storage = [i \in InvoiceIds |-> <<>>]
    /\ nextId = 1
    /\ inflight = NoReplace
    /\ pending = [c \in Callers |-> NoUpload]
    /\ puc = <<>>
    /\ nextAccountId = 1
    /\ tasks = [c \in Callers |-> NoTask]
    /\ processed = {}
    /\ \E input \in BuildInputs :
          last = [Observation("workbook_input", "", NoInvoice, "", "ok", <<>>)
                    EXCEPT !.content = <<input>>]

\* The same arguments given to each of the two writers.
BuildWorkbook ==
    LET input == last.content[1]
        with_pandas == BuildWithPandas(input.invoices, input.suggestions_map)
        with_minimal == BuildWithMinimalWriter(input.invoices, input.suggestions_map)
    IN  /\ last.op = "workbook_input"
        /\ last' = [Observation("build", "", NoInvoice, "", with_pandas.outcome,
                                <<with_pandas, with_minimal>>)
                      EXCEPT !.content = <<input>>]
        /\ UNCHANGED <<puc, nextAccountId, tasks, processed, pending, backend, byId, byOwner, storage, nextId, inflight>>

NextBuild == BuildWorkbook

SpecBuild == InitBuild /\ [][NextBuild]_vars

(***************************************************************************)
(* UploadPUC and the Firestore PUC repository                              *)
(***************************************************************************)
MaxRows == 2
MaxAccounts == 4

\* The text of the "codigo" header, found again in a data row.
CodigoHeader == <<"c", "o", "d", "i", "g", "o">>

\* Data rows of an uploaded sheet: the cells under "Codigo" and "Nombre".
SampleRows ==
    { [codigo |-> <<"1">>, nombre |-> <<"A">>],
      [codigo |-> <<" ", "5">>, nombre |-> <<"B", " ">>],
      [codigo |-> <<>>, nombre |-> <<"C">>],
      [codigo |-> CodigoHeader, nombre |-> <<"N">>] }

\* An uploaded file: whether its name ends in .xlsx or .xls, whether the
\* workbook can be read and has the two mandatory columns, and its data rows.
PUCFiles ==
    { [excelName |-> FALSE, readable |-> TRUE, rows |-> <<>>],
      [excelName |-> TRUE, readable |-> FALSE, rows |-> <<>>] }
        \cup { [excelName |-> TRUE, readable |-> TRUE, rows |-> rows] :
                  rows \in UNION {[1..n -> SampleRows] : n \in 0..MaxRows} }

\* _parse_row: None (here FALSE) for a row without codigo or nombre or with a
\* repeated header; otherwise the row is kept.
RowIsAccount(row) ==
    /\ Strip(row.codigo) # <<>>
    /\ Strip(row.nombre) # <<>>
    /\ Strip(row.codigo) # CodigoHeader

\* PUCAccount.create for the rows kept, each with a fresh id; ids are handed
\* out from first on.
RECURSIVE ParseRows(_, _, _)
ParseRows(rows, owner, first) ==
    IF rows = <<>> THEN <<>>
    ELSE IF RowIsAccount(Head(rows))
    THEN <<[id |-> first, owner_id |-> owner,
            codigo |-> Strip(Head(rows).codigo),
            nombre |-> Strip(Head(rows).nombre)]>>
            \o ParseRows(Tail(rows), owner, first + 1)
    ELSE ParseRows(Tail(rows), owner, first)

\* parse_excel: ValueError for a file that cannot be read.
ParseExcel(file, owner) ==
    IF ~file.readable THEN [outcome |-> "ValueError", accounts |-> <<>>]
    ELSE [outcome |-> "ok", accounts |-> ParseRows(file.rows, owner, nextAccountId)]

\* A delete that leaves the collection as it is.
DeleteAllByOwner_KeepsAll(collection, owner) == collection

\* delete_all_by_owner: the documents whose owner_id is the owner are deleted.
DeleteAllByOwner(collection, owner) ==
    LET kept == {i \in DOMAIN collection : collection[i].owner_id # owner}
    IN  [i \in kept |-> collection[i]]

\* add_bulk: document(account.id).set(...) for every account.
AddBulk(collection, accounts) ==
    LET ids == {accounts[k].id : k \in 1..Len(accounts)}
    IN  [i \in DOMAIN collection \cup ids |->
            IF i \in ids
            THEN accounts[CHOOSE k \in 1..Len(accounts) : accounts[k].id = i]
            ELSE collection[i]]

\* UploadPUC.execute: the outcome, the accounts parsed and the collection
\* afterwards.
UploadPUCResult(owner, file) ==
    LET parsed == ParseExcel(file, owner)
    IN  IF ~file.excelName
        THEN [outcome |-> "PUCUploadError", accounts |-> <<>>, puc |-> puc]
        ELSE IF parsed.outcome # "ok"
        THEN [outcome |-> "PUCUploadError", accounts |-> <<>>, puc |-> puc]
        ELSE IF parsed.accounts = <<>>
        THEN [outcome |-> "PUCUploadError", accounts |-> <<>>, puc |-> puc]
        ELSE [outcome |-> "ok", accounts |-> parsed.accounts,
              puc |-> AddBulk(DeleteAllByOwner(puc, owner), parsed.accounts)]

UploadPUC ==
    \E owner \in Owners, file \in PUCFiles :
        LET r == UploadPUCResult(owner, file)
        IN  /\ nextAccountId + Len(r.accounts) <= MaxAccounts + 1
            /\ puc' = r.puc
            /\ nextAccountId' = nextAccountId + Len(r.accounts)
            /\ last' = [Observation("upload_puc", owner, NoInvoice, "", r.outcome,
                                    r.accounts)
                          EXCEPT !.before = Cardinality({i \in DOMAIN puc :
                                                puc[i].owner_id = owner})]
            /\ UNCHANGED <<backend, byId, byOwner, storage, nextId, inflight,
                           pending, tasks, processed>>

\* GetPUCStats.execute: count_by_owner.
GetPUCStats ==
    \E owner \in Owners :
        LET total == Cardinality({i \in DOMAIN puc : puc[i].owner_id = owner})
        IN  /\ last' = Observation("puc_stats", owner, NoInvoice, "", "ok",
                                   <<[total_cuentas |-> total,
                                      tiene_puc |-> total > 0]>>)
            /\ UNCHANGED <<backend, byId, byOwner, storage, nextId, inflight,
                           pending, puc, nextAccountId, tasks, processed>>

NextPUC ==
    \/ UploadPUC
    \/ GetPUCStats

SpecPUC == Init /\ [][NextPUC]_vars

(***************************************************************************)
(* Generation calls in flight: the upload endpoint schedules one as a      *)
(* background task, POST /{invoice_id}/suggest runs one in the request.    *)
(* The steps of one call are its start (lookup, AI call, coercion or       *)
(* fallback) and the commits of replace_for_invoice.                       *)
(***************************************************************************)
UsableItem == CHOOSE r \in RawItems : Strip(r.account_code) # <<>>

\* What the AI collaborator does in one call.
GenBehaviours ==
    { [raises |-> TRUE, payload |-> <<>>],
      [raises |-> FALSE, payload |-> <<>>],
      [raises |-> FALSE, payload |-> <<UsableItem>>],
      [raises |-> FALSE, payload |-> <<OutOfRangeItem>>] }

Running(c) == tasks[c].phase \in {"chosen", "deleted"}

\* The first slot that holds no call (at most Cardinality(Callers) calls are
\* scheduled or running at a time).
HasFreeSlot == \E c \in Callers : tasks[c].phase = "idle"
FreeSlot ==
    CHOOSE c \in Callers :
        /\ tasks[c].phase = "idle"
        /\ \A d \in Callers : d < c => tasks[d].phase # "idle"

\* The slots once the call of slot c has ended: the calls after it move down,
\* so the calls in flight always fill the lowest slots.
Release(ts, c) ==
    [d \in Callers |-> IF d < c THEN ts[d]
                       ELSE IF d + 1 \in Callers THEN ts[d + 1]
                       ELSE NoTask]

\* The observation of a call that returned or raised.
GenerationEnded(task, outcome, ret) ==
    [Observation("generate", task.owner, task.invoice_id, "", outcome, ret)
        EXCEPT !.called = TRUE,
               !.background = task.background,
               !.overlapped = task.overlapped,
               !.chosen = task.suggestions,
               !.rival = task.rival]

\* The uploads the endpoint accepts stop when the invoice ids reach this
\* number.
MaxUploads == 1

\* The files sent to the endpoint: two good invoices and an empty file.
EndpointContents ==
    { SampleInvoice("E1", "2024-03-01"),
      SampleInvoice("E2", "2024-01-15"),
      [SampleInvoice("E1", "2024-03-01") EXCEPT !.blank = TRUE] }

\* POST /invoices/upload: the content-type test, UploadInvoice.execute, then
\* background_tasks.add_task(generate.execute, owner, invoice.id) and the
\* response with status "pendiente".
UploadEndpoint ==
    \E owner \in Owners :
        \/ \* file.content_type is not an XML type
           /\ last' = Observation("upload_endpoint", owner, NoInvoice, "",
                                  "HTTP400", <<>>)
           /\ UNCHANGED <<puc, nextAccountId, tasks, processed, pending, backend, byId, byOwner, storage, nextId, inflight>>
        \/ \E doc \in EndpointContents :
              LET r == UploadResult(owner, doc)
                  added == InvoiceAdd(InvoiceCreate(nextId, owner, Parse(doc)))
              IN  /\ r.added => (nextId <= MaxUploads /\ HasFreeSlot)
                  /\ byId' = IF r.added THEN added.byId ELSE byId
                  /\ byOwner' = IF r.added THEN added.byOwner ELSE byOwner
                  /\ nextId' = IF r.added THEN nextId + 1 ELSE nextId
                  /\ tasks' = IF r.added
                              THEN [tasks EXCEPT ![FreeSlot] =
                                       [NoTask EXCEPT !.phase = "scheduled",
                                                      !.owner = owner,
                                                      !.invoice_id = nextId,
                                                      !.background = TRUE]]
                              ELSE tasks
                  /\ last' = Observation("upload_endpoint", owner,
                                         IF r.added THEN nextId ELSE NoInvoice,
                                         r.ext, r.outcome,
                                         IF r.added THEN <<"pendiente">> ELSE <<>>)
                  /\ UNCHANGED <<puc, nextAccountId, processed, pending, backend, storage, inflight>>

\* GenerateAccountingSuggestions.execute up to the call of
\* replace_for_invoice, run in slot c: the lookup, then the AI call and the
\* coercion of its answer, or the fallback.
StartGeneration(c, owner, invoice_id, background) ==
    LET found == GetById(invoice_id)
        task == [NoTask EXCEPT !.owner = owner, !.invoice_id = invoice_id,
                               !.background = background]
        rivals == {d \in Callers \ {c} : Running(d) /\ tasks[d].invoice_id = found}
    IN  /\ IF InvoiceMissing(found, owner)
           THEN /\ tasks' = Release(tasks, c)
                /\ last' = [GenerationEnded(task, "InvoiceNotFoundError", <<>>)
                              EXCEPT !.called = FALSE]
           ELSE \E ai \in GenBehaviours :
                  LET coerced == CoerceAISuggestions(ai.payload)
                      fallback == BuildGenericFallback(byId[found])
                      chosen == IF coerced.items # <<>> THEN coerced.items
                                ELSE fallback.items
                      failure == IF ai.raises THEN "AIError" ELSE coerced.outcome
                  IN  IF failure # "ok"
                      THEN /\ tasks' = Release(tasks, c)
                           /\ last' = [GenerationEnded(task, failure, <<>>)
                                         EXCEPT !.raised = ai.raises,
                                                !.payload = ai.payload]
                      ELSE /\ tasks' =
                                [d \in Callers |->
                                   IF d = c
                                   THEN [task EXCEPT
                                           !.phase = "chosen",
                                           !.suggestions = chosen,
                                           !.overlapped = rivals # {},
                                           !.rival =
                                               IF rivals = {} THEN <<>>
                                               ELSE tasks[CHOOSE r \in rivals : TRUE].suggestions]
                                   ELSE IF d \in rivals
                                   THEN [tasks[d] EXCEPT !.overlapped = TRUE,
                                                         !.rival = chosen]
                                   ELSE tasks[d]]
                           /\ last' = [Observation("generate_start", owner, invoice_id,
                                                   "", "ok", <<>>)
                                         EXCEPT !.called = TRUE,
                                                !.payload = ai.payload,
                                                !.background = background]
        /\ UNCHANGED <<puc, nextAccountId, processed, pending, backend, byId, byOwner, storage, nextId, inflight>>

\* The background task of an upload starts.
BackgroundTaskStart ==
    \E c \in Callers :
        /\ tasks[c].phase = "scheduled"
        /\ StartGeneration(c, tasks[c].owner, tasks[c].invoice_id, TRUE)

\* POST /invoices/{invoice_id}/suggest.
RegenerateSuggestions ==
    \E owner \in Owners, invoice_id \in InvoiceIds :
        /\ HasFreeSlot
        /\ StartGeneration(FreeSlot, owner, invoice_id, FALSE)

\* Firestore replace_for_invoice, the commit of the deletes.
GenerateDelete ==
    \E c \in Callers :
        /\ backend = "firestore"
        /\ tasks[c].phase = "chosen"
        /\ storage' = ReplaceDelete(storage, tasks[c].invoice_id)
        /\ tasks' = [tasks EXCEPT ![c].phase = "deleted"]
        /\ last' = Observation("generate_delete", tasks[c].owner,
                               tasks[c].invoice_id, "", "ok", <<>>)
        /\ UNCHANGED <<puc, nextAccountId, processed, pending, backend, byId, byOwner, nextId, inflight>>

\* The write that ends the call: the assignment of the in-memory repository,
\* or the second Firestore batch; then execute returns the list, or the
\* exception of the write leaves it.
GenerateWrite ==
    \E c \in Callers :
        LET task == tasks[c]
            r == IF backend = "memory"
                 THEN ReplaceForInvoice(storage, task.invoice_id, task.suggestions)
                 ELSE ReplaceInsert(storage, task.invoice_id, task.suggestions)
        IN  /\ task.phase = IF backend = "memory" THEN "chosen" ELSE "deleted"
            /\ storage' = r.storage
            /\ tasks' = Release(tasks, c)
            /\ last' = GenerationEnded(task, r.outcome,
                                       IF r.outcome = "ok" THEN task.suggestions
                                       ELSE <<>>)
            /\ UNCHANGED <<puc, nextAccountId, processed, pending, backend, byId, byOwner, nextId, inflight>>

\* The reads of a client that keeps the record of what it has been shown.
ListInvoicesWatched ==
    ListInvoicesCall /\ processed' = processed \cup Reported(last'.ret)

GetInvoiceDetailWatched ==
    GetInvoiceDetailCall /\ processed' = processed \cup Reported(last'.ret)

NextGen ==
    \/ UploadEndpoint
    \/ BackgroundTaskStart
    \/ RegenerateSuggestions
    \/ GenerateDelete
    \/ GenerateWrite
    \/ ListInvoicesWatched
    \/ GetInvoiceDetailWatched
    \/ SelectSuggestionCall
    \/ ExportInvoicesToExcel

SpecGen == Init /\ [][NextGen]_vars

(***************************************************************************)
(* Vocabulary of the properties                                            *)
(***************************************************************************)
\* The invoices stored under a natural key.
WithKey(ids, owner, external_id) ==
    {i \in DOMAIN ids : ids[i].owner_id = owner /\ ids[i].external_id = external_id}

\* Two stored or returned entries describe the same suggestion.
SameSuggestion(x, y) ==
    /\ x.account_code = y.account_code
    /\ x.rationale = y.rationale
    /\ x.confidence = y.confidence
    /\ x.source = y.source
    /\ x.line_number = y.line_number

SameSuggestions(xs, ys) ==
    /\ Len(xs) = Len(ys)
    /\ \A k \in 1..Len(xs) : SameSuggestion(xs[k], ys[k])

\* The single manual-review suggestion.
IsFallbackList(items) ==
    /\ Len(items) = 1
    /\ items[1].account_code = <<>>
    /\ items[1].confidence = 0
    /\ items[1].source = "fallback"

NoUsableItem(payload) ==
    \A k \in 1..Len(payload) : Strip(payload[k].account_code) = <<>>

IsSelected(entry) == HasAttr(entry, "is_selected") /\ entry.is_selected

Orderings(items) ==
    {[k \in 1..Len(items) |-> items[f[k]]] :
        f \in {g \in [1..Len(items) -> 1..Len(items)] :
                 \A a, b \in 1..Len(items) : a # b => g[a] # g[b]}}

\* The invoices of an owner that an export covers.
Exported(owner) == {i \in DOMAIN byId : byId[i].owner_id = owner}

RowsOf(invoice_id) ==
    {k \in 1..Len(last.ret) : last.ret[k].invoice = invoice_id}

(***************************************************************************)
(* Properties                                                              *)
(***************************************************************************)
\* C1: once an upload for (owner_id, external_id) has succeeded, a later
\* upload with the same key raises InvoiceAlreadyExistsError and the store
\* still holds exactly one invoice for that key.
C1_DuplicateRejected ==
    [][ (/\ last'.op = "upload"
         /\ last'.ext # ""
         /\ WithKey(byId, last'.owner, last'.ext) # {})
        => (/\ last'.outcome = "InvoiceAlreadyExistsError"
            /\ byId' = byId
            /\ Cardinality(WithKey(byId', last'.owner, last'.ext)) = 1) ]_vars

C1_Witness ==
    /\ last.op = "upload"
    /\ last.outcome = "InvoiceAlreadyExistsError"
    /\ Cardinality(WithKey(byId, last.owner, last.ext)) = 1

\* C2: when the AI collaborator raises, execute does not propagate the
\* exception: it stores and returns the single fallback suggestion.
C2_AIExceptionAbsorbed ==
    (last.op = "generate" /\ last.raised)
        => (/\ last.outcome = "ok"
            /\ IsFallbackList(last.ret)
            /\ SameSuggestions(storage[last.inv], last.ret))

\* C3: when the AI collaborator yields no usable item, execute returns and
\* stores exactly one suggestion with an empty account code, confidence 0.0
\* and source "fallback".
C3_FallbackGuarantee ==
    (/\ last.op = "generate"
     /\ last.called
     /\ ~last.raised
     /\ NoUsableItem(last.payload))
        => (/\ last.outcome = "ok"
            /\ IsFallbackList(last.ret)
            /\ SameSuggestions(storage[last.inv], last.ret))

\* C4: a second execute for the same invoice with the same payload leaves the
\* store holding exactly the set that call returned, of the same size as
\* after the first call.
C4_IdempotentReplace ==
    (/\ last.op = "generate"
     /\ last.repeat
     /\ last.called
     /\ ~last.raised)
        => (/\ last.outcome = "ok"
            /\ SameSuggestions(storage[last.inv], last.ret)
            /\ Len(storage[last.inv]) = last.before)

C6_SummaryCarriesWinner ==
    (/\ last.op = "export"
     /\ \E i \in Exported(last.owner) : storage[i] # <<>>)
        => (/\ last.outcome = "ok"
            /\ \A k \in 1..Len(last.ret) :
                  storage[last.ret[k].invoice] # <<>>
                      => (/\ last.ret[k].winners # <<>>
                          /\ last.ret[k].code = last.ret[k].winners[1].account_code
                          /\ last.ret[k].rationale = last.ret[k].winners[1].rationale
                          /\ last.ret[k].confidence
                                = last.ret[k].winners[1].confidence))

C8_HighestConfidenceWins ==
    last.op = "export"
        => \A i \in Exported(last.owner) :
              (/\ storage[i] # <<>>
               /\ \A n \in 1..Len(storage[i]) : ~IsSelected(storage[i][n]))
                  => (/\ last.outcome = "ok"
                      /\ \E k \in RowsOf(i) :
                            LET w == last.ret[k].winners
                            IN  /\ Len(w) = 1
                                /\ \A n \in 1..Len(storage[i]) :
                                      /\ storage[i][n].confidence <= w[1].confidence
                                      /\ storage[i][n].confidence = w[1].confidence
                                            => Len(w[1].rationale)
                                                  <= Len(storage[i][n].rationale))

\* C9: the winner depends on the suggestion set only: every ordering in which
\* list_for_invoice may return the same suggestions yields the same winner.
C9_OrderIndependent ==
    \A i \in DOMAIN byId :
        LET read == ListForInvoice(storage, i)
        IN  read.outcome = "ok"
                => \A p \in Orderings(read.items) :
                      /\ SelectWinner(p).outcome = "ok"
                      /\ read.items # <<>> => Len(SelectWinner(p).items) = 1
                      /\ SelectWinner(p).items = SelectWinner(read.items).items

\* C10: execute raises InvoiceNotFoundError for an unknown invoice id and for
\* an invoice of another owner alike, without calling the AI collaborator
\* and without touching the stores.
C10_NotFoundIsUniform ==
    [][ (/\ last'.op = "generate"
         /\ \/ last'.inv \notin DOMAIN byId
            \/ byId[last'.inv].owner_id # last'.owner)
        => (/\ last'.outcome = "InvoiceNotFoundError"
            /\ last'.ret = <<>>
            /\ ~last'.called
            /\ storage' = storage
            /\ byId' = byId) ]_vars

C10_Witness ==
    /\ last.op = "generate"
    /\ last.outcome = "InvoiceNotFoundError"
    /\ last.inv \in DOMAIN byId
    /\ byId[last.inv].owner_id # last.owner
    /\ storage[last.inv] # <<>>

\* The stripped account codes of the usable items of a payload, in AI order.
UsableCodes(payload) ==
    SelectSeqBy([k \in 1..Len(payload) |-> Strip(payload[k].account_code)],
                [k \in 1..Len(payload) |-> Strip(payload[k].account_code) # <<>>])

\* C11: when the AI payload holds at least one usable item, execute returns
\* exactly the coerced suggestions in AI order, all with source "ai" and none
\* a fallback, and list_for_invoice afterwards equals the returned list.
C11_AISuggestionsAccepted ==
    (/\ last.op = "generate"
     /\ last.called
     /\ ~last.raised
     /\ ~NoUsableItem(last.payload))
        => (/\ last.outcome = "ok"
            /\ Len(last.ret) = Len(UsableCodes(last.payload))
            /\ \A k \in 1..Len(last.ret) :
                  /\ last.ret[k].source = "ai"
                  /\ last.ret[k].account_code = UsableCodes(last.payload)[k]
            /\ ListForInvoice(storage, last.inv).outcome = "ok"
            /\ SameSuggestions(ListForInvoice(storage, last.inv).items, last.ret))

\* The status an entry of a listing or of a detail reports agrees with the
\* suggestion store.
StatusAgrees(entry) ==
    /\ entry.status \in {"procesada", "pendiente"}
    /\ entry.status = "procesada" <=> storage[entry.invoice] # <<>>

C13_ConcurrentUploadsBothInsert ==
    (/\ last.op = "upload"
     /\ last.raced
     /\ \A d \in Callers :
           ~(/\ pending[d].active
             /\ pending[d].owner = last.owner
             /\ pending[d].ext = last.ext))
        => (/\ last.outcome = "ok"
            /\ Cardinality(WithKey(byId, last.owner, last.ext)) = 2)

C13_Witness ==
    /\ last.op = "upload"
    /\ last.raced
    /\ last.outcome = "ok"
    /\ \A d \in Callers : ~pending[d].active
    /\ Cardinality(WithKey(byId, last.owner, last.ext)) = 2

\* C14: a successful UploadInvoice.execute adds exactly one invoice to the
\* invoice store, owned by the given owner and under a fresh id, and leaves
\* the suggestion store unchanged: the new invoice has no suggestions.
C14_UploadAddsOneInvoice ==
    [][ (last'.op = "upload" /\ last'.outcome = "ok")
        => (/\ last'.inv \notin DOMAIN byId
            /\ DOMAIN byId' = DOMAIN byId \cup {last'.inv}
            /\ \A i \in DOMAIN byId : byId'[i] = byId[i]
            /\ byId'[last'.inv].id = last'.inv
            /\ byId'[last'.inv].owner_id = last'.owner
            /\ storage' = storage
            /\ storage'[last'.inv] = <<>>) ]_vars

C14_Witness ==
    /\ last.op = "upload"
    /\ last.outcome = "ok"
    /\ Cardinality(DOMAIN byId) = 2
    /\ byId[last.inv].owner_id = last.owner
    /\ storage[last.inv] = <<>>
    /\ \E i \in DOMAIN byId : storage[i] # <<>>

\* The content is empty or only whitespace.
IsBlank(doc) == doc.blank

\* The parser fails on the content.
ParserFails(doc) == ~doc.blank /\ Parse(doc).outcome # "ok"

\* The parser succeeds and reads no external id.
LacksExternalId(doc) ==
    ~doc.blank /\ Parse(doc).outcome = "ok" /\ Parse(doc).external_id = ""

\* C15: an upload that fails because the content is blank, because the parser
\* fails, or because the external id is missing raises
\* InvalidInvoicePayloadError, never the parser's error, and leaves the
\* invoice store unchanged.
C15_InvalidPayloadRejected ==
    [][ (/\ last'.op = "upload"
         /\ \/ IsBlank(last'.content[1])
            \/ ParserFails(last'.content[1])
            \/ LacksExternalId(last'.content[1]))
        => (/\ last'.outcome = "InvalidInvoicePayloadError"
            /\ byId' = byId
            /\ byOwner' = byOwner) ]_vars

C15_Witness ==
    /\ last.op = "upload"
    /\ ParserFails(last.content[1])
    /\ last.outcome = "InvalidInvoicePayloadError"
    /\ byId # <<>>

\* The issue dates of a sequence of invoice ids.
IssueDates(ids) == [k \in 1..Len(ids) |-> byId[ids[k]].issue_date]

NonDecreasing(dates) ==
    \A j, k \in 1..Len(dates) : j < k => dates[j] <= dates[k]

NonIncreasing(dates) ==
    \A j, k \in 1..Len(dates) : j < k => dates[j] >= dates[k]

\* The sequence holds each invoice of the owner exactly once.
CoversInvoicesOf(ids, owner) ==
    /\ {ids[k] : k \in 1..Len(ids)} = Exported(owner)
    /\ Len(ids) = Cardinality(Exported(owner))

InvoicesOfRows(rows) == [k \in 1..Len(rows) |-> rows[k].invoice]

\* C16: ExportInvoicesToExcel hands the owner's invoices to the workbook in
\* non-decreasing issue_date order; ListInvoices returns the same invoices in
\* non-increasing issue_date order.
C16_ExportAscendingListDescending ==
    /\ \A o \in Owners :
          /\ NonDecreasing(IssueDates(SortByIssueDate(ListForUser(o))))
          /\ CoversInvoicesOf(SortByIssueDate(ListForUser(o)), o)
          /\ NonIncreasing(IssueDates(SortByIssueDateReverse(ListForUser(o))))
          /\ CoversInvoicesOf(SortByIssueDateReverse(ListForUser(o)), o)
    /\ (last.op = "export" /\ last.outcome = "ok")
          => (/\ NonDecreasing(IssueDates(InvoicesOfRows(last.ret)))
              /\ CoversInvoicesOf(InvoicesOfRows(last.ret), last.owner))
    /\ (last.op = "list" /\ last.outcome = "ok")
          => (/\ NonIncreasing(IssueDates(InvoicesOfRows(last.ret)))
              /\ CoversInvoicesOf(InvoicesOfRows(last.ret), last.owner))

C16_Witness ==
    /\ last.op = "export"
    /\ last.outcome = "ok"
    /\ Len(last.ret) = 2
    /\ last.ret[1].invoice > last.ret[2].invoice
    /\ byId[last.ret[1].invoice].issue_date < byId[last.ret[2].invoice].issue_date
    /\ ListResult(last.owner).outcome = "ok"
    /\ InvoicesOfRows(ListResult(last.owner).ret)
          = <<last.ret[2].invoice, last.ret[1].invoice>>

\* A cell that shows nothing.
IsBlankCell(cell) == cell.t = "inlineStr" /\ cell.text = <<>>

\* The summary rows of the last export that belong to invoices without stored
\* suggestions.
RowsWithoutSuggestions ==
    {k \in 1..Len(last.ret) : storage[last.ret[k].invoice] = <<>>}

\* C17 as stated: for an invoice whose stored set is empty there is no winner
\* and the summary row shows account code, rationale and confidence blank.
C17_EmptySetRendersBlank ==
    (last.op = "export" /\ last.outcome = "ok")
        => \A k \in RowsWithoutSuggestions :
              /\ last.ret[k].winners = <<>>
              /\ IsBlankCell(last.ret[k].cells.code)
              /\ IsBlankCell(last.ret[k].cells.rationale)
              /\ IsBlankCell(last.ret[k].cells.confidence)

\* C17 amended: for an invoice whose stored set is empty there is no winner
\* and the summary row shows a blank account code, a blank rationale and the
\* number 0.0 as confidence.
C17_EmptySetRendersBlankAndZero ==
    (last.op = "export" /\ last.outcome = "ok")
        => \A k \in RowsWithoutSuggestions :
              /\ last.ret[k].winners = <<>>
              /\ IsBlankCell(last.ret[k].cells.code)
              /\ IsBlankCell(last.ret[k].cells.rationale)
              /\ last.ret[k].cells.confidence = NumberCell(0)

C17_Witness ==
    /\ last.op = "export"
    /\ last.outcome = "ok"
    /\ RowsWithoutSuggestions # {}
    /\ \E i \in DOMAIN byId : storage[i] # <<>>

\* Every invoice a result names belongs to the caller.
OnlyOwnInvoices(rows, owner) ==
    \A k \in 1..Len(rows) :
        /\ rows[k].invoice \in DOMAIN byId
        /\ byId[rows[k].invoice].owner_id = owner

\* C18: ListInvoices and ExportInvoicesToExcel for an owner only include
\* invoices of that owner, and GetInvoiceDetail and suggestion generation
\* neither expose nor modify an invoice or its suggestions for a caller who is
\* not its owner.
C18_TenantIsolation ==
    [][ /\ (last'.op \in {"list", "export", "detail"} /\ last'.outcome = "ok")
              => OnlyOwnInvoices(last'.ret, last'.owner)
        /\ last'.op \in {"list", "export", "detail", "generate"}
              => \A i \in DOMAIN byId :
                    byId[i].owner_id # last'.owner
                        => (/\ i \in DOMAIN byId'
                            /\ byId'[i] = byId[i]
                            /\ storage'[i] = storage[i])
        /\ (/\ last'.op \in {"detail", "generate"}
            /\ last'.inv \in DOMAIN byId
            /\ byId[last'.inv].owner_id # last'.owner)
              => (/\ last'.outcome = "InvoiceNotFoundError"
                  /\ last'.ret = <<>>) ]_vars

C18_Witness ==
    /\ last.op = "list"
    /\ last.outcome = "ok"
    /\ Len(last.ret) = 1
    /\ \E i \in DOMAIN byId :
          /\ byId[i].owner_id # last.owner
          /\ storage[i] # <<>>

SupportedProfiles == {"Invoice", "AttachedDocument", "CreditNote"}

\* The business document a file carries, written as a plain Invoice: the
\* attachment of an AttachedDocument, the lines of a CreditNote as invoice
\* lines.
CarriedInvoice(doc) ==
    IF doc.root = "AttachedDocument" THEN doc.attachment[1]
    ELSE [doc EXCEPT !.root = "Invoice",
                     !.lines = [k \in 1..Len(doc.lines) |->
                                   [doc.lines[k] EXCEPT !.tag = "InvoiceLine"]]]

\* C19: parse accepts each supported profile: a document whose business
\* content parses when written as a plain Invoice also parses as an
\* AttachedDocument and as a CreditNote, and yields that content's fields and
\* line items.
C19_ProfilesAccepted ==
    (/\ last.op = "parse"
     /\ last.content[1].root \in SupportedProfiles
     /\ Parse(CarriedInvoice(last.content[1])).outcome = "ok")
        => (/\ last.outcome = "ok"
            /\ last.ret[1].external_id = CarriedInvoice(last.content[1]).id
            /\ Len(last.ret[1].lines) = Len(CarriedInvoice(last.content[1]).lines)
            /\ \A k \in 1..Len(last.ret[1].lines) :
                  last.ret[1].lines[k].description
                      = CarriedInvoice(last.content[1]).lines[k].description)

\* The result of the last parse keeps the document's line items, one line per
\* element and in document order.
LinesInDocumentOrder ==
    /\ Len(last.ret[1].lines) = Len(last.content[1].lines)
    /\ \A k \in 1..Len(last.ret[1].lines) :
          last.ret[1].lines[k].description = last.content[1].lines[k].description

\* C20 as stated: when parse succeeds on a well-formed document with N line
\* items, the result has N lines in document order, a non-empty external_id
\* and total_amount >= tax_amount >= 0.
C20_ParserRoundTrip ==
    (last.op = "parse" /\ last.content[1].wellFormed /\ last.outcome = "ok")
        => (/\ LinesInDocumentOrder
            /\ last.ret[1].external_id # ""
            /\ last.ret[1].total_amount >= last.ret[1].tax_amount
            /\ last.ret[1].tax_amount >= 0)

\* C20 amended: when parse succeeds on a well-formed document with N line
\* items, the result has N >= 1 lines in document order; external_id is the
\* text of the document's cbc:ID (possibly empty) and total_amount and
\* tax_amount are the document's amounts as written (tax 0 when absent).
C20_ParserKeepsLinesAndAmounts ==
    (last.op = "parse" /\ last.content[1].wellFormed /\ last.outcome = "ok")
        => (/\ LinesInDocumentOrder
            /\ Len(last.ret[1].lines) >= 1
            /\ last.ret[1].external_id = last.content[1].id
            /\ last.ret[1].total_amount = DecimalValues[last.content[1].payable]
            /\ last.ret[1].tax_amount
                  = IF last.content[1].tax = "absent" THEN 0
                    ELSE DecimalValues[last.content[1].tax])

C20_Witness ==
    /\ last.op = "parse"
    /\ last.outcome = "ok"
    /\ Len(last.ret[1].lines) = 2
    /\ last.ret[1].lines[1].description # last.ret[1].lines[2].description
    /\ last.ret[1].external_id = ""
    /\ last.ret[1].total_amount < last.ret[1].tax_amount

\* The raw items of a payload that the coercion is to keep, in AI order.
UsableItems(payload) ==
    SelectSeqBy(payload,
                [k \in 1..Len(payload) |-> Strip(payload[k].account_code) # <<>>])

\* The texts of the sample payloads that denote a number.
NumericTexts == {"0.7", "0.9", "1.5"}

\* C21: coercion keeps exactly the raw items whose account_code is non-empty
\* after trimming, in their original order; each kept item becomes a
\* suggestion with source "ai", is_selected false, and the item's numeric
\* confidence, or 0.5 when the value is not a number.
C21_CoercionKeepsUsableItems ==
    (last.op = "generate" /\ last.called /\ ~last.raised)
        => LET kept == UsableItems(last.payload)
               made == CoerceAISuggestions(last.payload)
           IN  /\ made.outcome = "ok"
               /\ Len(made.items) = Len(kept)
               /\ \A k \in 1..Len(made.items) :
                     /\ made.items[k].account_code = Strip(kept[k].account_code)
                     /\ made.items[k].source = "ai"
                     /\ HasAttr(made.items[k], "is_selected")
                     /\ ~made.items[k].is_selected
                     /\ kept[k].confidence \in NumericTexts
                           => made.items[k].confidence
                                 = ParseConfidence(kept[k].confidence)
                     /\ kept[k].confidence \notin NumericTexts
                           => made.items[k].confidence = 50

AccountsOf(collection, owner) ==
    {collection[i] : i \in {j \in DOMAIN collection : collection[j].owner_id = owner}}

\* C24: after a successful UploadPUC.execute for an owner, that owner's PUC
\* set is exactly the accounts parsed from the uploaded file, none of the
\* previous version remains, and the PUC sets of all other owners are
\* unchanged.
C24_PUCReplacedAsUnit ==
    [][ (last'.op = "upload_puc" /\ last'.outcome = "ok")
        => (/\ AccountsOf(puc', last'.owner)
                  = {last'.ret[k] : k \in 1..Len(last'.ret)}
            /\ Cardinality(AccountsOf(puc', last'.owner)) = Len(last'.ret)
            /\ \A i \in DOMAIN puc :
                  puc[i].owner_id = last'.owner => i \notin DOMAIN puc'
            /\ \A o \in Owners \ {last'.owner} :
                  AccountsOf(puc', o) = AccountsOf(puc, o)) ]_vars

C24_Witness ==
    /\ last.op = "upload_puc"
    /\ last.outcome = "ok"
    /\ Len(last.ret) = 1
    /\ last.before = 2
    /\ \E i \in DOMAIN puc : puc[i].owner_id # last.owner

C26_OverlapKeepsOneSet ==
    (/\ last.op = "generate"
     /\ last.overlapped
     /\ ~\E c \in Callers : Running(c) /\ tasks[c].invoice_id = last.inv)
        => \/ SameSuggestions(storage[last.inv], last.chosen)
           \/ SameSuggestions(storage[last.inv], last.rival)

\* C27: a successful upload through the endpoint answers "pendiente", and the
\* background task it scheduled ends having stored a non-empty set that a
\* listing can read.
C27_BackgroundTaskStores ==
    /\ (last.op = "upload_endpoint" /\ last.outcome = "ok")
          => last.ret = <<"pendiente">>
    /\ (last.op = "generate" /\ last.background)
          => /\ last.outcome = "ok"
             /\ storage[last.inv] # <<>>
             /\ ListForInvoice(storage, last.inv).outcome = "ok"

C30_EmptyExportRejected ==
    last.op = "export"
        => /\ ListForUser(last.owner) = <<>>
                => (last.outcome = "NoInvoicesToExportError" /\ ~last.built)
           /\ ListForUser(last.owner) # <<>>
                => last.outcome # "NoInvoicesToExportError"

\* An export was refused for an owner without invoices while the other owner
\* has some.
C30_Witness ==
    /\ last.op = "export"
    /\ last.outcome = "NoInvoicesToExportError"
    /\ \E o \in Owners : ListForUser(o) # <<>>
====
